---- MODULE Spec2Model ----
EXTENDS Integers, Sequences, FiniteSets, TLC

(***************************************************************************)
(* Lumina photo album: the object store, the derivative (thumbnail and     *)
(* preview) generator with its event handler, the REST routes that mutate  *)
(* the store, and the metadata index.                                      *)
(*                                                                         *)
(* An object key is a sequence of tokens: "/" is the path separator, an    *)
(* extension such as ".jpg" is one token, every other token is a run of    *)
(* characters of a path segment.                                           *)
(***************************************************************************)

VARIABLES
    store,      \* the bucket: key -> [bytes, meta, ctype]
    events,     \* keys for which the bucket has emitted an ObjectCreated event
    recs,       \* event records handed to the handler so far
    gen,        \* <<record, kind>> -> the generator call made for that record
    invs,       \* handler invocations
    now,        \* Date.now() of the browser
    req,        \* the REST request in flight (or the last one answered)
    index,      \* the metadata index table: key -> record
    shares,     \* the share table: shareToken -> record
    calls,      \* requests to the share router that are in flight or answered
    clock,      \* Date.now() of the server, in milliseconds
    env,        \* process.env of the server
    http,       \* the request passing through the Express middleware chain
    limiter,    \* the rate limiter's store
    verifier,   \* the cached Cognito JWT verifier
    job,        \* the batchWriteImageMetadata call of the migration script
    hook        \* the useS3Images hook of a mounted gallery and its requests

albumVars == <<store, events, recs, gen, invs, now, req, index>>
shareVars == <<shares, calls, clock>>
appVars == <<env, http, limiter, verifier>>
clientVars == <<job, hook>>

vars == <<store, events, recs, gen, invs, now, req, index,
          shares, calls, clock, env, http, limiter, verifier, job, hook>>

-----------------------------------------------------------------------------
(* Bounds *)

MaxTime == 2
MaxRecords == 2
MaxCalls == 2
MaxLatency == 1
MaxElapsedDays == 2
MaxOver == 2
MaxKeyToks == 3
MaxTags == 3

-----------------------------------------------------------------------------
(* thumbnailUtils.ts: constants and key helpers *)

SUPPORTED_IMAGE_EXTENSIONS == {".jpg", ".jpeg", ".png", ".gif", ".webp"}
THUMBNAIL_PREFIX == <<"thumbnails", "/">>
PREVIEW_PREFIX == <<"previews", "/">>

Kinds == {"thumbnail", "preview"}

LowerTok(t) ==
    CASE t = ".JPG" -> ".jpg"
      [] t = "A" -> "a"
      [] t = "B" -> "b"
      [] t = " A " -> " a "
      [] OTHER -> t

toLowerCase(k) == [i \in DOMAIN k |-> LowerTok(k[i])]

startsWith(k, p) == Len(k) >= Len(p) /\ SubSeq(k, 1, Len(p)) = p

endsWith(k, t) == Len(k) > 0 /\ k[Len(k)] = t

isImageFile(key) ==
    \E ext \in SUPPORTED_IMAGE_EXTENSIONS : endsWith(toLowerCase(key), ext)

isThumbnailFile(key) == startsWith(key, THUMBNAIL_PREFIX)

isPreviewFile(key) == startsWith(key, PREVIEW_PREFIX)

isGeneratedImageFile(key) == isThumbnailFile(key) \/ isPreviewFile(key)

getThumbnailKey(originalKey) == THUMBNAIL_PREFIX \o originalKey

getPreviewKey(originalKey) == PREVIEW_PREFIX \o originalKey

DerivativeKey(kind, key) ==
    IF kind = "thumbnail" THEN getThumbnailKey(key) ELSE getPreviewKey(key)

-----------------------------------------------------------------------------
(* The bucket *)

\* bytes that sharp cannot decode
CorruptBytes == <<"corrupt">>

\* the bucket notification: ObjectCreated:* filtered by key suffix
NotifySuffixes == {".jpg", ".jpeg", ".png", ".gif", ".webp"}

Notifies(key) == \E s \in NotifySuffixes : endsWith(key, s)

Emit(ev, key) == IF Notifies(key) THEN ev \cup {key} ELSE ev

PutObject(s, key, obj) ==
    [k \in DOMAIN s \cup {key} |-> IF k = key THEN obj ELSE s[k]]

DeleteObject(s, key) == [k \in DOMAIN s \ {key} |-> s[k]]

\* a store call either is served or fails with a 5xx
FaultChoices == {FALSE, TRUE}

-----------------------------------------------------------------------------
(* thumbnailUtils.ts: the generator *)

\* mutant: the probe reads every answer as "not found"
thumbnailExists_Blind(s, thumbnailKey, fault) ==
    IF fault THEN "throw" ELSE "false"

\* HeadObject on the derivative key: "true", "false" (404) or "throw"
thumbnailExists(s, thumbnailKey, fault) ==
    IF fault THEN "throw"
    ELSE IF thumbnailKey \in DOMAIN s THEN "true" ELSE "false"

\* mutant: the probe reads every answer as "not found"
previewExists_Blind(s, previewKey, fault) ==
    IF fault THEN "throw" ELSE "false"

previewExists(s, previewKey, fault) ==
    IF fault THEN "throw"
    ELSE IF previewKey \in DOMAIN s THEN "true" ELSE "false"

Exists(kind, s, dkey, fault) ==
    IF kind = "thumbnail" THEN thumbnailExists(s, dkey, fault)
    ELSE previewExists(s, dkey, fault)

\* sharp(...).resize(...).jpeg(...).toBuffer(): deterministic in its input
Resize(kind, bytes) ==
    IF kind = "thumbnail" THEN <<"thumb200">> \o bytes ELSE <<"preview">> \o bytes

DerivativeObject(kind, key, buf) ==
    [bytes |-> buf,
     ctype |-> "image/jpeg",
     meta  |-> [m \in {"original-key"} |-> key]]

AlreadyExists(kind) ==
    IF kind = "thumbnail" THEN "Thumbnail already exists" ELSE "Preview already exists"

SkipResults == {"Skipping thumbnail file", "Skipping generated image file",
                "Not an image file"}

NoCall == [pc |-> "none", key |-> <<>>, result |-> "", buf |-> <<>>,
           existedAtProbe |-> FALSE, probes |-> 0, downloads |-> 0,
           writes |-> 0, overwrote |-> FALSE]

Returned(call, res) == [call EXCEPT !.pc = "done", !.result = res]

\* the synchronous head of generateThumbnail, up to the existence probe
generateThumbnail(imageKey) ==
    LET call == [NoCall EXCEPT !.key = imageKey] IN
    IF isThumbnailFile(imageKey) THEN Returned(call, "Skipping thumbnail file")
    ELSE IF ~isImageFile(imageKey) THEN Returned(call, "Not an image file")
    ELSE [call EXCEPT !.pc = "probe"]

\* the synchronous head of generatePreview, up to the existence probe
generatePreview(imageKey) ==
    LET call == [NoCall EXCEPT !.key = imageKey] IN
    IF isGeneratedImageFile(imageKey) THEN Returned(call, "Skipping generated image file")
    ELSE IF ~isImageFile(imageKey) THEN Returned(call, "Not an image file")
    ELSE [call EXCEPT !.pc = "probe"]

Generate(kind, key) ==
    IF kind = "thumbnail" THEN generateThumbnail(key) ELSE generatePreview(key)

Calls == DOMAIN gen

\* await thumbnailExists / previewExists, outside the try block
GenProbe(c) ==
    /\ gen[c].pc = "probe"
    /\ \E fault \in FaultChoices :
        LET kind == c[2]
            dkey == DerivativeKey(kind, gen[c].key)
            ans  == Exists(kind, store, dkey, fault)
            seen == [gen[c] EXCEPT !.existedAtProbe = (dkey \in DOMAIN store),
                                   !.probes = @ + 1]
        IN /\ gen' = [gen EXCEPT ![c] =
                        CASE ans = "throw" -> [seen EXCEPT !.pc = "threw"]
                          [] ans = "true"  -> Returned(seen, AlreadyExists(kind))
                          [] OTHER         -> [seen EXCEPT !.pc = "download"]]
    /\ UNCHANGED <<store, events, recs, invs, now, req, index, shareVars, appVars, clientVars>>

\* GetObject of the original and the sharp pipeline, inside the try block
GenDownload(c) ==
    /\ gen[c].pc = "download"
    /\ \E fault \in FaultChoices :
        LET kind == c[2]
            key  == gen[c].key
            got  == [gen[c] EXCEPT !.downloads = @ + 1]
        IN /\ gen' = [gen EXCEPT ![c] =
                        IF fault THEN Returned(got, "store error")
                        ELSE IF key \notin DOMAIN store THEN Returned(got, "NoSuchKey")
                        ELSE IF store[key].bytes = CorruptBytes
                             THEN Returned(got, "unsupported image format")
                        ELSE [got EXCEPT !.pc = "upload",
                                         !.buf = Resize(kind, store[key].bytes)]]
    /\ UNCHANGED <<store, events, recs, invs, now, req, index, shareVars, appVars, clientVars>>

\* PutObject of the derivative, inside the try block
GenUpload(c) ==
    /\ gen[c].pc = "upload"
    /\ \E fault \in FaultChoices :
        LET kind == c[2]
            dkey == DerivativeKey(kind, gen[c].key)
        IN IF fault
              THEN /\ gen' = [gen EXCEPT ![c] = Returned(@, "store error")]
                   /\ UNCHANGED <<store, events>>
              ELSE /\ gen' = [gen EXCEPT ![c] =
                                Returned([@ EXCEPT !.writes = @ + 1,
                                                   !.overwrote = (dkey \in DOMAIN store)],
                                         "ok")]
                   /\ store' = PutObject(store, dkey,
                                         DerivativeObject(kind, gen[c].key, gen[c].buf))
                   /\ events' = Emit(events, dkey)
    /\ UNCHANGED <<recs, invs, now, req, index, shareVars, appVars, clientVars>>

-----------------------------------------------------------------------------
(* The event handler (Lambda) *)

BUCKET_NAME == "lumina-images"

\* decodeURIComponent(key.replace(/\+/g, ' ')): a lone "%" is a URIError
DecodeTok(t) ==
    CASE t = "+" -> " "
      [] t = "%20" -> " "
      [] OTHER -> t

DecodeThrows(raw) == \E i \in DOMAIN raw : raw[i] = "%"

DecodeKey(raw) == [i \in DOMAIN raw |-> DecodeTok(raw[i])]

\* the bucket URL-encodes the key it puts in the record
EncodeTok(t) == IF t = " " THEN "+" ELSE t

EncodeKey(key) == [i \in DOMAIN key |-> EncodeTok(key[i])]

\* records a caller may hand the handler besides the bucket's own events
ExtraRecords == { <<"%", ".jpg">>, <<"notes", ".txt">> }

RecordInputs == {EncodeKey(k) : k \in events} \cup ExtraRecords

Batches ==
    {<<r>> : r \in RecordInputs}
        \cup {<<r1, r2>> : r1 \in RecordInputs, r2 \in RecordInputs}

RecIdx(i) == {r \in DOMAIN recs : recs[r].inv = i}

\* processS3Record's promise
RecRejected(r) ==
    \/ ~recs[r].decoded
    \/ \E kind \in Kinds : gen[<<r, kind>>].pc = "threw"

RecResolved(r) ==
    /\ recs[r].decoded
    /\ \A kind \in Kinds : gen[<<r, kind>>].pc = "done"

\* both generator calls of the record have an outcome
RecSettled(r) ==
    \/ ~recs[r].decoded
    \/ \A kind \in Kinds : gen[<<r, kind>>].pc \in {"done", "threw"}

\* mutant: Promise.all awaited outside the try block
HandlerOutcome_NoCatch(anyRejected) == IF anyRejected THEN "threw" ELSE "returned"

\* await Promise.all(promises) inside try/catch: the handler's own outcome
HandlerOutcome(anyRejected) == "returned"

\* handler entry: event.Records.map(processS3Record) runs every record up to
\* its first await
Invoke(batch) ==
    /\ Len(recs) + Len(batch) <= MaxRecords
    /\ LET i    == Len(invs) + 1
           base == Len(recs)
           new  == [j \in 1..Len(batch) |->
                     [inv |-> i, raw |-> batch[j],
                      decoded |-> ~DecodeThrows(batch[j]),
                      key |-> IF DecodeThrows(batch[j]) THEN <<>>
                              ELSE DecodeKey(batch[j])]]
       IN /\ IF BUCKET_NAME = ""
             THEN /\ invs' = Append(invs, [status |-> "returned", n |-> 0, sawError |-> FALSE])
                  /\ UNCHANGED <<recs, gen>>
             ELSE /\ invs' = Append(invs, [status |-> "running", n |-> Len(batch),
                                           sawError |-> FALSE])
                  /\ recs' = recs \o new
                  /\ gen' = [c \in DOMAIN gen \cup ((base + 1 .. base + Len(batch)) \X Kinds) |->
                               IF c \in DOMAIN gen THEN gen[c]
                               ELSE IF new[c[1] - base].decoded
                                    THEN Generate(c[2], new[c[1] - base].key)
                                    ELSE NoCall]
    /\ UNCHANGED <<store, events, now, req, index, shareVars, appVars, clientVars>>

\* the await in the handler settles: all records resolved, or one rejected
HandlerReturn(i) ==
    /\ invs[i].status = "running"
    /\ LET anyRejected == \E r \in RecIdx(i) : RecRejected(r)
       IN /\ anyRejected \/ \A r \in RecIdx(i) : RecResolved(r)
          /\ invs' = [invs EXCEPT ![i].status = HandlerOutcome(anyRejected),
                                  ![i].sawError = anyRejected]
    /\ UNCHANGED <<store, events, recs, gen, now, req, index, shareVars, appVars, clientVars>>


-----------------------------------------------------------------------------
(* utils/validation.ts *)

MAX_KEY_LENGTH == 1024
MAX_TAG_LENGTH == 50

NonStringToks == {"<number>"}

\* tokens that stand for one character below U+0020 or for U+007F
ControlCodes ==
    ("\\0" :> 0) @@ ("\\x08" :> 8) @@ ("\\t" :> 9) @@ ("\\n" :> 10) @@
    ("\\x0B" :> 11) @@ ("\\r" :> 13) @@ ("\\x1F" :> 31) @@ ("\\x7F" :> 127)

\* tokens that stand for a file extension
ExtToks == SUPPORTED_IMAGE_EXTENSIONS \cup {".JPG", ".txt"}

Letters(n) == [i \in 1..n |-> 97]

\* the characters (code units) a token stands for; every character that is
\* neither a dot, a slash nor a control character is written as a letter
CharCodes(t) ==
    CASE t = "" -> <<>>
      [] t = "<1025 chars>" -> Letters(1025)
      [] t = "<1023 chars>" -> Letters(1023)
      [] t = "<51 chars>" -> Letters(51)
      [] t = ".." -> <<46, 46>>
      [] t = "." -> <<46>>
      [] t = "/" -> <<47>>
      [] t \in DOMAIN ControlCodes -> <<ControlCodes[t]>>
      [] t \in ExtToks -> <<46>> \o Letters(3)
      [] OTHER -> Letters(1)

TokLen(t) == Len(CharCodes(t))

\* the string a key is
RECURSIVE Text(_)
Text(key) == IF key = <<>> THEN <<>> ELSE CharCodes(Head(key)) \o Text(Tail(key))

\* String.prototype.includes
includes(text, sub) ==
    \E i \in 1..(Len(text) - Len(sub) + 1) : SubSeq(text, i, i + Len(sub) - 1) = sub

ControlClass_WithoutDel(c) == c \in (0..8) \cup (11..12) \cup (14..31)

\* /[\x00-\x08\x0B-\x0C\x0E-\x1F\x7F]/
ControlClass(c) == c \in (0..8) \cup (11..12) \cup (14..31) \cup {127}

\* validateS3Key: TRUE when it does not throw
validateS3Key(key) ==
    LET text == Text(key) IN
    /\ text # <<>>
    /\ ~\E i \in DOMAIN key : key[i] \in NonStringToks
    /\ ~includes(text, <<46, 46>>)
    /\ ~includes(text, <<47, 47>>)
    /\ ~startsWith(text, <<47>>)
    /\ ~includes(text, <<0>>)
    /\ Len(text) <= MAX_KEY_LENGTH
    /\ ~\E i \in DOMAIN text : ControlClass(text[i])

\* whitespace String.prototype.trim removes
Blanks == {" ", "\\t", "\\n", "\\r"}

RECURSIVE DropLeading(_, _)
DropLeading(k, toks) ==
    IF k # <<>> /\ Head(k) \in toks THEN DropLeading(Tail(k), toks) ELSE k

RECURSIVE DropTrailing(_, _)
DropTrailing(k, toks) ==
    IF k # <<>> /\ k[Len(k)] \in toks
    THEN DropTrailing(SubSeq(k, 1, Len(k) - 1), toks) ELSE k

\* prefix.trim().replace(/^\/+|\/+$/g, '')
sanitized(prefix) ==
    LET trimmed == DropTrailing(DropLeading(prefix, Blanks), Blanks)
    IN DropTrailing(DropLeading(trimmed, {"/"}), {"/"})

validateS3Prefix_Unchecked(prefix) ==
    [ok |-> TRUE, value |-> sanitized(prefix)]

\* validateS3Prefix: ok is FALSE when it throws, value is what it returns
validateS3Prefix(prefix) ==
    IF Text(prefix) = <<>> THEN [ok |-> TRUE, value |-> <<>>]
    ELSE IF \E i \in DOMAIN prefix : prefix[i] \in NonStringToks
    THEN [ok |-> FALSE, value |-> <<>>]
    ELSE IF \/ includes(Text(sanitized(prefix)), <<46, 46>>)
            \/ includes(Text(sanitized(prefix)), <<47, 47>>)
    THEN [ok |-> FALSE, value |-> <<>>]
    ELSE [ok |-> TRUE,
          value |-> IF sanitized(prefix) # <<>> /\ ~endsWith(sanitized(prefix), "/")
                    THEN sanitized(prefix) \o <<"/">>
                    ELSE sanitized(prefix)]

TrimTok(t) ==
    CASE t = " a" -> "a"
      [] t = "a " -> "a"
      [] t = " a " -> "a"
      [] t = " A " -> "A"
      [] t = " " -> ""
      [] OTHER -> t

\* validateTags: TRUE when it does not throw
TagsValid(tags) ==
    /\ tags.isArray
    /\ \A i \in DOMAIN tags.items :
          /\ tags.items[i] \notin NonStringToks
          /\ TokLen(tags.items[i]) <= MAX_TAG_LENGTH

validateTags(tags) ==
    SelectSeq([i \in DOMAIN tags.items |-> TrimTok(tags.items[i])], LAMBDA t : t # "")

-----------------------------------------------------------------------------
(* routes/tags.ts: tag helpers *)

Dedupe_Keep(seq, seen) == seq

RECURSIVE Dedupe(_, _)
Dedupe(seq, seen) ==
    IF seq = <<>> THEN <<>>
    ELSE IF Head(seq) \in seen THEN Dedupe(Tail(seq), seen)
    ELSE <<Head(seq)>> \o Dedupe(Tail(seq), seen \cup {Head(seq)})

normalizeTags(tags) ==
    Dedupe(SelectSeq([i \in DOMAIN tags |-> LowerTok(TrimTok(tags[i]))],
                     LAMBDA t : t # ""), {})

\* JSON.stringify of a string array
JsonStringify(tags) == <<"[">> \o tags \o <<"]">>

JsonIsArray(text) == Len(text) >= 2 /\ text[1] = "[" /\ text[Len(text)] = "]"

JsonParse(text) == SubSeq(text, 2, Len(text) - 1)

serializeTags(tags) == JsonStringify(normalizeTags(tags))

\* the tag list an object's metadata carries, as the migration script reads it
TagsOfMeta(meta) ==
    LET tagsMeta == IF "x-amz-meta-tags" \in DOMAIN meta /\ meta["x-amz-meta-tags"] # <<>>
                    THEN meta["x-amz-meta-tags"]
                    ELSE IF "tags" \in DOMAIN meta THEN meta["tags"] ELSE <<>>
    IN IF tagsMeta = <<>> THEN <<>>
       ELSE IF JsonIsArray(tagsMeta) THEN JsonParse(tagsMeta) ELSE <<>>

\* getObjectTags of routes/tags.ts: HeadObject, any failure gives []
getObjectTags(s, key) ==
    IF key \notin DOMAIN s THEN <<>> ELSE normalizeTags(TagsOfMeta(s[key].meta))

-----------------------------------------------------------------------------
(* Browser: useImageUpload.uploadFiles *)

TsTok(t) == <<"1", "2", "3", "4">>[t]

\* file.name.replace(/[^a-zA-Z0-9.-]/g, '_')
SanitizeTok(t) == IF t \in {"a", "b", ".jpg", ".JPG", ".txt"} THEN t ELSE "_"

sanitizedName(name) == [i \in DOMAIN name |-> SanitizeTok(name[i])]

UploadKey(currentFolder, timestamp, name) ==
    IF currentFolder # <<>>
    THEN currentFolder \o <<TsTok(timestamp), "_">> \o sanitizedName(name)
    ELSE <<TsTok(timestamp), "_">> \o sanitizedName(name)

\* the files a user picks: name, content, MIME type
Files ==
    { [name |-> <<"a", ".jpg">>, bytes |-> <<"img">>, type |-> "image/jpeg"],
      [name |-> <<"a", ".jpg">>, bytes |-> CorruptBytes, type |-> "image/jpeg"] }

Folders == { <<>> }

\* every key a browser upload can produce
UploadKeys ==
    {UploadKey(f, t, file.name) : f \in Folders, t \in 1..MaxTime, file \in Files}

\* keys REST clients send: upload keys, one that fails validation, and one
\* under the thumbnail prefix (nothing reserves the prefix)
RequestKeys ==
    UploadKeys \cup { <<"..", "/", "a", ".jpg">>,
                      getThumbnailKey(UploadKey(<<>>, 1, <<"a", ".jpg">>)) }

TagInputs ==
    { [isArray |-> TRUE, items |-> <<"B", "a", " a">>],
      [isArray |-> FALSE, items |-> <<>>] }

\* the tags a client of PUT /image/:key/tags sends
TagToks == {"a", "A", " a", "a ", " A ", "b", "B", " ", ""}

\* every tag list of up to MaxTags tags
TagLists ==
    {[isArray |-> TRUE, items |-> items] :
        items \in UNION {[1..n -> TagToks] : n \in 0..MaxTags}}

\* the image whose tags are set
TaggedKey == UploadKey(<<>>, 1, <<"a", ".jpg">>)

\* the metadata an object carries when another client of the bucket stored it
MetaInputs ==
    { <<>>,
      ("author" :> <<"me">>),
      ("tags" :> <<"[", "A", "a", "]">>),
      ("x-amz-meta-tags" :> <<"[", "old", "]">>) @@ ("author" :> <<"me">>) }

-----------------------------------------------------------------------------
(* REST routes of routes/s3.ts and routes/tags.ts *)

Idle == [kind |-> "idle", pc |-> "done", key |-> <<>>, key2 |-> <<>>,
         bytes |-> <<>>, ctype |-> "", tags |-> <<>>, head |-> <<>>, status |-> 0,
         body |-> <<>>]

\* the response is sent and the handler's locals are gone
Respond(r, code) ==
    [Idle EXCEPT !.kind = r.kind, !.key = r.key, !.key2 = r.key2, !.status = code]

\* one REST request at a time
CanStart == req.pc = "done"

\* thumbnailExists of routes/s3.ts: every error is logged and read as "absent"
routeThumbnailExists(s, thumbnailKey, fault) ==
    IF fault THEN FALSE ELSE thumbnailKey \in DOMAIN s

\* POST /presign-upload: 400 on a bad key, else a presigned PUT URL
presignUpload(key) == IF key = <<>> \/ ~validateS3Key(key) THEN 400 ELSE 200

\* the tokens of the keys a client of POST /presign sends
KeyAlphabet ==
    {"a", ".", "..", "/", ".jpg", " ", "", "<1023 chars>"} \cup DOMAIN ControlCodes

\* every string of up to MaxKeyToks tokens, and a value that is not a string
KeyInputs ==
    UNION {[1..n -> KeyAlphabet] : n \in 0..MaxKeyToks} \cup {<<"<number>">>}

\* POST /presign: 400 on a missing or bad key, else a presigned GET URL
Presign(key) ==
    /\ CanStart
    /\ \E fault \in FaultChoices :
          req' = Respond([Idle EXCEPT !.kind = "presign", !.key = key],
                         IF ~validateS3Key(key) THEN 400
                         ELSE IF fault THEN 500 ELSE 200)
    /\ UNCHANGED <<store, events, recs, gen, invs, now, index, shareVars, appVars, clientVars>>

\* uploadFiles for one file: build the key, ask for the presigned URL
UploadStart(folder, file) ==
    /\ CanStart
    /\ LET key == UploadKey(folder, now, file.name)
           r   == [Idle EXCEPT !.kind = "upload", !.key = key,
                               !.bytes = file.bytes, !.ctype = file.type]
       IN req' = IF presignUpload(key) = 200 THEN [r EXCEPT !.pc = "put"]
                 ELSE Respond(r, 400)
    /\ UNCHANGED <<store, events, recs, gen, invs, now, index, shareVars, appVars, clientVars>>

\* the browser PUTs the file to the presigned URL
UploadPut ==
    /\ req.kind = "upload" /\ req.pc = "put"
    /\ \E fault \in FaultChoices :
        /\ IF fault
           THEN /\ req' = Respond(req, 500)
                /\ UNCHANGED <<store, events>>
           ELSE /\ store' = PutObject(store, req.key,
                                      [bytes |-> req.bytes, ctype |-> req.ctype,
                                       meta |-> <<>>])
                /\ events' = Emit(events, req.key)
                /\ req' = Respond(req, 200)
    /\ UNCHANGED <<recs, gen, invs, now, index, shareVars, appVars, clientVars>>

\* DELETE /delete: validation, then DeleteObject of the original
DeleteStart(key) ==
    /\ CanStart
    /\ LET r == [Idle EXCEPT !.kind = "delete", !.key = key] IN
       IF ~validateS3Key(key)
       THEN /\ req' = Respond(r, 400)
            /\ UNCHANGED <<store>>
       ELSE \E fault \in FaultChoices :
            /\ IF fault
               THEN /\ req' = Respond(r, 500)
                    /\ UNCHANGED store
               ELSE /\ store' = DeleteObject(store, key)
                    /\ req' = [r EXCEPT !.pc = "probeThumb"]
    /\ UNCHANGED <<events, recs, gen, invs, now, index, shareVars, appVars, clientVars>>

\* DELETE /delete: thumbnailExists(thumbnailKey)
DeleteProbeThumb ==
    /\ req.kind = "delete" /\ req.pc = "probeThumb"
    /\ \E fault \in FaultChoices :
        /\ req' = IF routeThumbnailExists(store, getThumbnailKey(req.key), fault)
                  THEN [req EXCEPT !.pc = "delThumb"]
                  ELSE Respond(req, 200)
    /\ UNCHANGED <<store, events, recs, gen, invs, now, index, shareVars, appVars, clientVars>>

\* DELETE /delete: DeleteObject of the thumbnail; a failure is only logged
DeleteThumb ==
    /\ req.kind = "delete" /\ req.pc = "delThumb"
    /\ \E fault \in FaultChoices :
        /\ store' = IF fault THEN store
                    ELSE DeleteObject(store, getThumbnailKey(req.key))
        /\ req' = Respond(req, 200)
    /\ UNCHANGED <<events, recs, gen, invs, now, index, shareVars, appVars, clientVars>>

CopyFails_SelfAllowed(s, src, dst, fault) == fault \/ src \notin DOMAIN s

\* CopyObject without MetadataDirective: the bucket refuses a copy of an
\* object onto itself, and a copy of a missing source
CopyFails(s, src, dst, fault) == fault \/ src \notin DOMAIN s \/ src = dst

\* POST /move: validation, then CopyObject to the new key
MoveStart(oldKey, newKey) ==
    /\ CanStart
    /\ LET r == [Idle EXCEPT !.kind = "move", !.key = oldKey, !.key2 = newKey] IN
       IF ~validateS3Key(oldKey) \/ ~validateS3Key(newKey)
       THEN /\ req' = Respond(r, 400)
            /\ UNCHANGED <<store, events>>
       ELSE \E fault \in FaultChoices :
            /\ IF CopyFails(store, oldKey, newKey, fault)
               THEN /\ req' = Respond(r, 500)
                    /\ UNCHANGED <<store, events>>
               ELSE /\ store' = PutObject(store, newKey, store[oldKey])
                    /\ events' = Emit(events, newKey)
                    /\ req' = [r EXCEPT !.pc = "delOld"]
    /\ UNCHANGED <<recs, gen, invs, now, index, shareVars, appVars, clientVars>>

\* POST /move: DeleteObject of the old key
MoveDeleteOld ==
    /\ req.kind = "move" /\ req.pc = "delOld"
    /\ \E fault \in FaultChoices :
        /\ IF fault
           THEN /\ req' = Respond(req, 500)
                /\ UNCHANGED store
           ELSE /\ store' = DeleteObject(store, req.key)
                /\ req' = Respond(req, 200)
    /\ UNCHANGED <<events, recs, gen, invs, now, index, shareVars, appVars, clientVars>>

\* PUT /image/:key/tags: validation, then HeadObject
TagsStart(key, tags) ==
    /\ CanStart
    /\ LET r == [Idle EXCEPT !.kind = "tags", !.key = key] IN
       IF ~validateS3Key(key) \/ ~TagsValid(tags)
       THEN req' = Respond(r, 400)
       ELSE \E fault \in FaultChoices :
            /\ req' = IF fault \/ key \notin DOMAIN store
                      THEN Respond(r, 500)
                      ELSE [r EXCEPT !.pc = "get",
                                     !.body = tags.items,
                                     !.tags = normalizeTags(validateTags(tags)),
                                     !.head = store[key].meta,
                                     !.ctype = store[key].ctype]
    /\ UNCHANGED <<store, events, recs, gen, invs, now, index, shareVars, appVars, clientVars>>

\* PUT /image/:key/tags: GetObject and transformToByteArray
TagsGet ==
    /\ req.kind = "tags" /\ req.pc = "get"
    /\ \E fault \in FaultChoices :
        /\ req' = IF fault \/ req.key \notin DOMAIN store
                  THEN Respond(req, 500)
                  ELSE [req EXCEPT !.pc = "copy"]
    /\ UNCHANGED <<store, events, recs, gen, invs, now, index, shareVars, appVars, clientVars>>

newMetadata_TagsOnly(existingMetadata, normalizedTags) ==
    ("tags" :> serializeTags(normalizedTags))

newMetadata(existingMetadata, normalizedTags) ==
    [m \in DOMAIN existingMetadata \cup {"tags"} |->
        IF m = "tags" THEN serializeTags(normalizedTags) ELSE existingMetadata[m]]

\* PUT /image/:key/tags: CopyObject onto itself with MetadataDirective REPLACE
TagsCopy ==
    /\ req.kind = "tags" /\ req.pc = "copy"
    /\ \E fault \in FaultChoices :
        /\ IF fault \/ req.key \notin DOMAIN store
           THEN /\ req' = Respond(req, 500)
                /\ UNCHANGED <<store, events>>
           ELSE /\ store' = PutObject(store, req.key,
                                      [bytes |-> store[req.key].bytes,
                                       ctype |-> req.ctype,
                                       meta  |-> newMetadata(req.head, req.tags)])
                /\ events' = Emit(events, req.key)
                /\ req' = Respond(req, 200)
    /\ UNCHANGED <<recs, gen, invs, now, index, shareVars, appVars, clientVars>>

\* another client of the bucket stores the image with its own metadata
BucketPut(key, meta) ==
    /\ CanStart
    /\ key \notin DOMAIN store
    /\ store' = PutObject(store, key,
                          [bytes |-> <<"img">>, ctype |-> "image/jpeg", meta |-> meta])
    /\ events' = Emit(events, key)
    /\ UNCHANGED <<recs, gen, invs, now, req, index, shareVars, appVars, clientVars>>

\* the folder paths REST clients send: a folder, the root, a traversal, a
\* path with a doubled slash, no path, a value that is not a string
PathInputs ==
    { <<"thumbnails">>, <<"/">>, <<"..", "/", "a">>, <<"a", "/", "/", "b">>,
      <<>>, <<"<number>">> }

\* DELETE /folder: validation, ListObjectsV2 under the prefix, DeleteObject of
\* every listed object in turn; a DeleteObject that fails ends the loop, and
\* the objects deleted before it (any of the listed ones, the order of the
\* listing being the store's) stay deleted
FolderDelete(path) ==
    /\ CanStart
    /\ LET r == [Idle EXCEPT !.kind = "rmdir", !.key = path]
           folderPrefix == validateS3Prefix(path)
       IN IF Text(path) = <<>> \/ ~folderPrefix.ok
          THEN /\ req' = Respond(r, 400)
               /\ UNCHANGED store
          ELSE \E fault \in FaultChoices :
               LET Contents == {k \in DOMAIN store : startsWith(k, folderPrefix.value)}
               IN IF fault
                  THEN /\ req' = Respond(r, 500)
                       /\ UNCHANGED store
                  ELSE \E gone \in SUBSET Contents :
                       /\ store' = [k \in DOMAIN store \ gone |-> store[k]]
                       /\ req' = Respond(r, IF gone = Contents THEN 200 ELSE 500)
    /\ UNCHANGED <<events, recs, gen, invs, now, index, shareVars, appVars, clientVars>>

-----------------------------------------------------------------------------
(* scripts/migrate-to-dynamodb.ts with services/dynamodbService.ts *)

RECURSIVE LastSegment(_)
LastSegment(key) ==
    IF \E i \in DOMAIN key : key[i] = "/"
    THEN LastSegment(Tail(key))
    ELSE key

s3ImageToMetadata(image, folder) ==
    [key      |-> image.key,
     name     |-> image.name,
     size     |-> image.size,
     tags     |-> image.tags,
     tagCount |-> Len(image.tags),
     folder   |-> IF folder # <<>> THEN folder ELSE image.folder]

\* processBatch: the objects the migration turns into index records
Migratable(key) ==
    /\ ~endsWith(key, "/")
    /\ ~startsWith(key, THUMBNAIL_PREFIX)
    /\ ~startsWith(key, PREVIEW_PREFIX)

ImageOf(s, key, prefix) ==
    [key |-> key, name |-> LastSegment(key), size |-> Len(s[key].bytes),
     tags |-> TagsOfMeta(s[key].meta), folder |-> prefix]

\* migrate(''): list the bucket, batch-write one record per image
Migrate ==
    /\ index' = [k \in DOMAIN index \cup {k \in DOMAIN store : Migratable(k)} |->
                   IF k \in DOMAIN store /\ Migratable(k)
                   THEN s3ImageToMetadata(ImageOf(store, k, <<>>), <<>>)
                   ELSE index[k]]
    /\ index' # index
    /\ UNCHANGED <<store, events, recs, gen, invs, now, req, shareVars, appVars, clientVars>>

-----------------------------------------------------------------------------
(* services/dynamodbService.ts: batchWriteImageMetadata *)

BATCH_WRITE_SIZE == 25

MaxItems == 53

Digit == <<"0", "1", "2", "3", "4", "5", "6", "7", "8", "9">>

\* the image the listing returns in place j: "07.jpg"
PageImage(j) ==
    LET key == <<Digit[(j \div 10) + 1], Digit[(j % 10) + 1], ".jpg">>
    IN [key |-> key, name |-> key, size |-> 1, tags |-> <<>>, folder |-> <<>>]

\* images.map((img) => s3ImageToMetadata(img, prefix))
Items(n) == [j \in 1..n |-> s3ImageToMetadata(PageImage(j), <<>>)]

slice_ToEnd(items, start, end) == SubSeq(items, start + 1, Len(items))

\* Array.prototype.slice(start, end): places start (counted from 0) up to,
\* not including, end
slice(items, start, end) ==
    SubSeq(items, start + 1, IF end < Len(items) THEN end ELSE Len(items))

KeysOf(batch) == [j \in DOMAIN batch |-> batch[j].key]

NoJob == [pc |-> "idle", items |-> <<>>, i |-> 0, sent |-> <<>>, completed |-> 0]

\* BatchWriteItem is not atomic: the call succeeds and hands back the puts it
\* did not apply in UnprocessedItems (here: none of them, or any one of them)
UnprocessedChoices(batch) == {{}} \cup {{j} : j \in DOMAIN batch}

\* the script calls batchWriteImageMetadata with the records of a page
BatchStart(n) ==
    /\ job.pc = "idle"
    /\ job' = [NoJob EXCEPT !.pc = "loop", !.items = Items(n)]
    /\ UNCHANGED <<albumVars, shareVars, appVars, hook>>

\* the loop test, and docClient.send(command) for the next slice
BatchSend ==
    /\ job.pc = "loop"
    /\ LET batchSize == BATCH_WRITE_SIZE
           batch == slice(job.items, job.i, job.i + batchSize)
       IN job' = IF job.i < Len(job.items)
                 THEN [job EXCEPT !.pc = "await", !.sent = Append(@, KeysOf(batch))]
                 ELSE [job EXCEPT !.pc = "returned"]
    /\ UNCHANGED <<albumVars, shareVars, appVars, hook>>

\* the awaited call settles: it throws (caught, logged, rethrown), or it
\* resolves and its response is dropped
BatchSettle ==
    /\ job.pc = "await"
    /\ LET batchSize == BATCH_WRITE_SIZE
           batch == slice(job.items, job.i, job.i + batchSize)
       IN \E fault \in FaultChoices :
          IF fault
          THEN /\ job' = [job EXCEPT !.pc = "threw", !.completed = @ + 1]
               /\ UNCHANGED index
          ELSE \E unprocessed \in UnprocessedChoices(batch) :
               LET put == {batch[j].key : j \in DOMAIN batch \ unprocessed}
                   item(k) == CHOOSE it \in {batch[j] : j \in DOMAIN batch} : it.key = k
               IN /\ index' = [k \in DOMAIN index \cup put |->
                                 IF k \in put THEN item(k) ELSE index[k]]
                  /\ job' = [job EXCEPT !.pc = "loop", !.i = @ + batchSize,
                                        !.completed = @ + 1]
    /\ UNCHANGED <<store, events, recs, gen, invs, now, req, shareVars, appVars, hook>>

-----------------------------------------------------------------------------
(* services/dynamodbService.ts: createImageMetadata, updateImageMetadata *)

RecordKeys == { <<"a", ".jpg">>, <<"b", ".jpg">> }

\* tag lists of an S3ImageResponse and of a partial update
RecordTagLists == { <<>>, <<"a">>, <<"a", "b">>, <<"A", "a">> }

RecordImages ==
    {[key |-> k, name |-> k, size |-> 1, tags |-> t, folder |-> <<>>] :
        k \in RecordKeys, t \in RecordTagLists}

\* Partial<Omit<ImageMetadata, 'key' | 'updatedAt'>>
Updates ==
    {("tags" :> t) : t \in RecordTagLists}
        \cup {("tags" :> t) @@ ("tagCount" :> Len(t)) : t \in RecordTagLists}
        \cup {("size" :> 2)}

\* PutCommand: the item replaces the record of its key
createImageMetadata(metadata) ==
    /\ \E fault \in FaultChoices :
        index' = IF fault THEN index
                 ELSE [k \in DOMAIN index \cup {metadata.key} |->
                         IF k = metadata.key THEN metadata ELSE index[k]]
    /\ UNCHANGED <<store, events, recs, gen, invs, now, req, shareVars, appVars, clientVars>>

\* UpdateCommand: SET of the given fields on the record of the key, which
\* the table creates when it is absent
updateImageMetadata(key, updates) ==
    /\ \E fault \in FaultChoices :
        index' = IF fault THEN index
                 ELSE [k \in DOMAIN index \cup {key} |->
                         IF k # key THEN index[k]
                         ELSE IF key \in DOMAIN index THEN updates @@ index[key]
                         ELSE updates @@ [key |-> key]]
    /\ UNCHANGED <<store, events, recs, gen, invs, now, req, shareVars, appVars, clientVars>>

-----------------------------------------------------------------------------
(* frontend/src/hooks/useS3Images.ts *)

MaxPending == 2

HookFolders == { <<>>, <<"album", "/">> }

NoToken == "null"

\* s3Service.listImagesPaginated(folderPath, IMAGES_PER_PAGE, token): every
\* folder holds two pages of one image each
listImagesPaginated(folderPath, token) ==
    IF token = NoToken
    THEN [images |-> <<folderPath \o <<"1", ".jpg">>>>, isTruncated |-> TRUE,
          nextContinuationToken |-> "page2"]
    ELSE [images |-> <<folderPath \o <<"2", ".jpg">>>>, isTruncated |-> FALSE,
          nextContinuationToken |-> NoToken]

\* the hook before its first effect has run, with folderPath = ''
Unmounted ==
    [mounted |-> FALSE, folderPath |-> <<>>, currentFolderPathRef |-> <<>>,
     images |-> <<>>, loading |-> FALSE, loadingMore |-> FALSE, error |-> FALSE,
     hasMore |-> FALSE, nextContinuationToken |-> NoToken, pending |-> {}]

\* loadImages(isLoadMore, token) of the render h, up to its await; the hook
\* is enabled
loadImages(h, isLoadMore, token) ==
    LET changed == h.currentFolderPathRef # h.folderPath
        h1 == IF changed
              THEN [h EXCEPT !.currentFolderPathRef = h.folderPath] ELSE h
        h2 == IF changed
              THEN [h1 EXCEPT !.images = <<>>, !.nextContinuationToken = NoToken,
                              !.hasMore = FALSE]
              ELSE h1
        h3 == IF isLoadMore THEN [h2 EXCEPT !.loadingMore = TRUE]
              ELSE [h2 EXCEPT !.loading = TRUE]
    IN IF changed /\ isLoadMore THEN h1
       ELSE [h3 EXCEPT !.error = FALSE,
                       !.pending = @ \cup {[folderPath |-> h.folderPath,
                                            isLoadMore |-> isLoadMore,
                                            token |-> IF isLoadMore THEN token ELSE NoToken]}]

\* useEffect(..., [folderPath, enabled]) of the render h
effect(h) ==
    loadImages(IF h.currentFolderPathRef # h.folderPath
               THEN [h EXCEPT !.currentFolderPathRef = h.folderPath,
                              !.images = <<>>, !.nextContinuationToken = NoToken,
                              !.hasMore = FALSE]
               ELSE h,
               FALSE, NoToken)

CanRequest == Cardinality(hook.pending) < MaxPending

\* the first render and its effect
Mount ==
    /\ ~hook.mounted
    /\ hook' = effect([hook EXCEPT !.mounted = TRUE])
    /\ UNCHANGED <<albumVars, shareVars, appVars, job>>

\* the gallery renders the hook with another folderPath; the effect runs
SelectFolder(folderPath) ==
    /\ hook.mounted
    /\ folderPath # hook.folderPath
    /\ CanRequest
    /\ hook' = effect([hook EXCEPT !.folderPath = folderPath])
    /\ UNCHANGED <<albumVars, shareVars, appVars, job>>

loadMore ==
    /\ hook.mounted
    /\ CanRequest
    /\ ~hook.loadingMore /\ hook.hasMore /\ hook.nextContinuationToken # NoToken
    /\ hook' = loadImages(hook, TRUE, hook.nextContinuationToken)
    /\ UNCHANGED <<albumVars, shareVars, appVars, job>>

refreshImages ==
    /\ hook.mounted
    /\ CanRequest
    /\ hook' = loadImages([hook EXCEPT !.nextContinuationToken = NoToken,
                                       !.hasMore = FALSE], FALSE, NoToken)
    /\ UNCHANGED <<albumVars, shareVars, appVars, job>>

\* the await of a loadImages call settles: try, catch and finally
ListSettles(p) ==
    /\ p \in hook.pending
    /\ \E fault \in FaultChoices :
        LET data == listImagesPaginated(p.folderPath, p.token)
            h == [hook EXCEPT !.pending = @ \ {p}, !.loading = FALSE,
                              !.loadingMore = FALSE]
        IN hook' = IF fault THEN [h EXCEPT !.error = TRUE]
                   ELSE [h EXCEPT !.images = IF p.isLoadMore THEN @ \o data.images
                                             ELSE data.images,
                                  !.hasMore = data.isTruncated,
                                  !.nextContinuationToken = data.nextContinuationToken]
    /\ UNCHANGED <<albumVars, shareVars, appVars, job>>

-----------------------------------------------------------------------------
(* Browser clock *)

Tick ==
    /\ now < MaxTime
    /\ now' = now + 1
    /\ UNCHANGED <<store, events, recs, gen, invs, req, index, shareVars, appVars, clientVars>>

-----------------------------------------------------------------------------
(* services/shareService.ts *)

DAY_MS == 24 * 60 * 60 * 1000

maxAttempts == 10

DEFAULT_SHARE_EXPIRY_DAYS == 7
MAX_SHARE_EXPIRY_DAYS == 14

\* generateShareToken: randomBytes, base64url; any token can come out
Tokens == {"tokA", "tokB"}

\* the sub claim of a verified access token
Users == {"u1", "u2"}
Undefined == "undefined"

Min(a, b) == IF a < b THEN a ELSE b
Max(a, b) == IF a > b THEN a ELSE b

\* the expiresInDays argument: absent, or a number
NoDays == [given |-> FALSE, n |-> 0]
Days(n) == [given |-> TRUE, n |-> n]

\* the default parameter value stands in for undefined
DaysArg(expiresInDays) ==
    IF expiresInDays.given THEN expiresInDays.n ELSE DEFAULT_SHARE_EXPIRY_DAYS

validExpiresInDays_Unclamped(expiresInDays) == DaysArg(expiresInDays)

validExpiresInDays(expiresInDays) ==
    Min(Max(1, DaysArg(expiresInDays)), MAX_SHARE_EXPIRY_DAYS)

\* const expiresAt = now + validExpiresInDays * 24 * 60 * 60 * 1000
ExpiresAt(t, expiresInDays) == t + validExpiresInDays(expiresInDays) * DAY_MS

\* ShareRecord; createdBy is left out when the caller has no identity
ShareRecord(imageKey, createdAt, expiresAt, createdBy) ==
    [imageKey |-> imageKey, createdAt |-> createdAt, expiresAt |-> expiresAt,
     createdBy |-> createdBy]

NoRecord == ShareRecord(<<>>, 0, 0, Undefined)

\* the outcome of getShareInfo
Threw == [outcome |-> "threw", item |-> NoRecord]
Null == [outcome |-> "null", item |-> NoRecord]
Found(item) == [outcome |-> "record", item |-> item]

getShareInfo_Inclusive(tbl, token, t, fault) ==
    IF fault THEN Threw
    ELSE IF token \notin DOMAIN tbl THEN Null
    ELSE IF tbl[token].expiresAt <= t THEN Null
    ELSE Found(tbl[token])

\* getShareInfo: GetCommand, then the expiry check against Date.now()
getShareInfo(tbl, token, t, fault) ==
    IF fault THEN Threw
    ELSE IF token \notin DOMAIN tbl THEN Null
    ELSE IF tbl[token].expiresAt < t THEN Null
    ELSE Found(tbl[token])

\* PutCommand: the item replaces whatever the table holds under its key
PutItem(tbl, token, item) ==
    [k \in DOMAIN tbl \cup {token} |-> IF k = token THEN item ELSE tbl[k]]

\* DeleteCommand
DeleteItem(tbl, token) == [k \in DOMAIN tbl \ {token} |-> tbl[k]]

-----------------------------------------------------------------------------
(* routes/share.ts: POST /create, GET /:token, DELETE /:token *)

CallIds == 1..MaxCalls

IdleCall ==
    [kind |-> "idle", pc |-> "done", user |-> Undefined, imageKey |-> <<>>,
     days |-> NoDays, token |-> "", attempts |-> 0, nowAt |-> 0,
     status |-> 0, details |-> "", probes |-> 0, found |-> 0, puts |-> 0]

\* res.status(code).json({error, details})
\* after it the handler's locals are gone
Answer(c, code, details) ==
    [IdleCall EXCEPT !.kind = c.kind, !.status = code, !.details = details,
                     !.probes = c.probes, !.found = c.found, !.puts = c.puts]

InFlight(c) == c.pc # "done"

\* a request is handled in the first free slot
FreeSlot(id) ==
    /\ ~InFlight(calls[id])
    /\ \A j \in CallIds : j < id => InFlight(calls[j])

\* getErrorMessage(error) of a failed store or table call
StoreError == "store error"
NoUniqueToken == "Failed to generate unique share token after multiple attempts"

\* the callers the authentication middleware lets through to the router
Authenticated == Users

\* the images users share
ShareFiles == {file \in Files : file.bytes # CorruptBytes}

ShareImageKeys ==
    { UploadKey(<<>>, 1, <<"a", ".jpg">>), <<"..", "/", "a", ".jpg">>, <<>> }

DayInputs == { NoDays, Days(0), Days(MAX_SHARE_EXPIRY_DAYS + 1) }

\* POST /create: the imageKey checks
ShareCreateStart(id, imageKey, expiresInDays, user) ==
    /\ FreeSlot(id)
    /\ LET c == [IdleCall EXCEPT !.kind = "create", !.user = user,
                                 !.imageKey = imageKey, !.days = expiresInDays]
       IN calls' = [calls EXCEPT ![id] =
                      IF imageKey = <<>> \/ ~validateS3Key(imageKey)
                      THEN Answer(c, 400, "")
                      ELSE [c EXCEPT !.pc = "head"]]
    /\ UNCHANGED <<shares, clock, albumVars, appVars, clientVars>>

\* POST /create: HeadObject of the image; then createShareToken takes
\* Date.now() and generates its first candidate
ShareCreateHead(id, candidate) ==
    /\ calls[id].kind = "create" /\ calls[id].pc = "head"
    /\ \E fault \in FaultChoices :
        LET c == calls[id] IN
        calls' = [calls EXCEPT ![id] =
                    IF fault THEN Answer(c, 500, StoreError)
                    ELSE IF c.imageKey \notin DOMAIN store THEN Answer(c, 404, "")
                    ELSE [c EXCEPT !.pc = "probe", !.nowAt = clock,
                                   !.token = candidate, !.attempts = 1]]
    /\ UNCHANGED <<shares, clock, albumVars, appVars, clientVars>>

CeilingReached_OffByOne(attempts) == attempts > maxAttempts

\* if (attempts >= maxAttempts) throw
CeilingReached(attempts) == attempts >= maxAttempts

\* createShareToken: one round of the do-while loop, from the GetCommand of
\* the candidate to the next candidate
ShareCreateProbe(id, candidate) ==
    /\ calls[id].kind = "create" /\ calls[id].pc = "probe"
    /\ \E fault \in FaultChoices :
        LET c == [calls[id] EXCEPT !.probes = @ + 1] IN
        calls' = [calls EXCEPT ![id] =
                    IF fault \/ c.token \notin DOMAIN shares
                    THEN [c EXCEPT !.pc = "put", !.attempts = 0]
                    ELSE IF CeilingReached(c.attempts)
                    THEN Answer([c EXCEPT !.found = @ + 1], 500, NoUniqueToken)
                    ELSE [c EXCEPT !.found = @ + 1, !.token = candidate,
                                   !.attempts = @ + 1]]
    /\ UNCHANGED <<shares, clock, albumVars, appVars, clientVars>>

\* createShareToken: PutCommand of the share record
ShareCreatePut(id) ==
    /\ calls[id].kind = "create" /\ calls[id].pc = "put"
    /\ \E fault \in FaultChoices :
        LET c == calls[id] IN
        IF fault
        THEN /\ calls' = [calls EXCEPT ![id] = Answer(c, 500, StoreError)]
             /\ UNCHANGED shares
        ELSE /\ shares' = PutItem(shares, c.token,
                            ShareRecord(c.imageKey, c.nowAt,
                                        ExpiresAt(c.nowAt, c.days), c.user))
             /\ calls' = [calls EXCEPT ![id] =
                            [IdleCall EXCEPT !.kind = "create", !.pc = "resolve",
                                             !.token = c.token,
                                             !.probes = c.probes, !.found = c.found,
                                             !.puts = c.puts + 1]]
    /\ UNCHANGED <<clock, albumVars, appVars, clientVars>>

\* POST /create: getShareInfo(shareToken) for the expiresAt of the response
ShareCreateResolve(id) ==
    /\ calls[id].kind = "create" /\ calls[id].pc = "resolve"
    /\ \E fault \in FaultChoices :
        LET c == calls[id]
            shareInfo == getShareInfo(shares, c.token, clock, fault)
        IN calls' = [calls EXCEPT ![id] =
                       IF shareInfo = Threw THEN Answer(c, 500, StoreError)
                       ELSE IF shareInfo = Null THEN Answer(c, 500, "")
                       ELSE Answer(c, 200, "")]
    /\ UNCHANGED <<shares, clock, albumVars, appVars, clientVars>>

\* GET /:token (public)
ShareGetStart(id, token) ==
    /\ FreeSlot(id)
    /\ calls' = [calls EXCEPT ![id] =
                   [IdleCall EXCEPT !.kind = "resolve", !.token = token,
                                    !.pc = "get"]]
    /\ UNCHANGED <<shares, clock, albumVars, appVars, clientVars>>

\* GET /:token: getShareInfo(token)
ShareGetInfo(id) ==
    /\ calls[id].kind = "resolve" /\ calls[id].pc = "get"
    /\ \E fault \in FaultChoices :
        LET c == calls[id]
            shareInfo == getShareInfo(shares, c.token, clock, fault)
        IN calls' = [calls EXCEPT ![id] =
                       IF shareInfo = Threw THEN Answer(c, 500, StoreError)
                       ELSE IF shareInfo = Null
                       THEN Answer(c, 404, "")
                       ELSE [c EXCEPT !.imageKey = shareInfo.item.imageKey,
                                      !.pc = "head"]]
    /\ UNCHANGED <<shares, clock, albumVars, appVars, clientVars>>

\* GET /:token: HeadObject of the shared image
ShareGetHead(id) ==
    /\ calls[id].kind = "resolve" /\ calls[id].pc = "head"
    /\ \E fault \in FaultChoices :
        LET c == calls[id] IN
        calls' = [calls EXCEPT ![id] =
                    IF fault THEN Answer(c, 500, StoreError)
                    ELSE IF c.imageKey \notin DOMAIN store
                    THEN Answer(c, 404, "")
                    ELSE [c EXCEPT !.pc = "meta"]]
    /\ UNCHANGED <<shares, clock, albumVars, appVars, clientVars>>

\* GET /:token: getImageMetadata, thumbnailExists, previewExists, one after
\* another; each swallows its errors
ShareGetLookup(id) ==
    /\ calls[id].kind = "resolve" /\ calls[id].pc \in {"meta", "thumb", "preview"}
    /\ calls' = [calls EXCEPT ![id] =
                   [@ EXCEPT !.pc = CASE @ = "meta" -> "thumb"
                                [] @ = "thumb" -> "preview"
                                [] OTHER -> "head2"]]
    /\ UNCHANGED <<shares, clock, albumVars, appVars, clientVars>>

\* GET /:token: the second HeadObject, for size and date
ShareGetHead2(id) ==
    /\ calls[id].kind = "resolve" /\ calls[id].pc = "head2"
    /\ \E fault \in FaultChoices :
        LET c == calls[id] IN
        calls' = [calls EXCEPT ![id] =
                    IF fault \/ c.imageKey \notin DOMAIN store
                    THEN Answer(c, 500, StoreError)
                    ELSE Answer(c, 200, "")]
    /\ UNCHANGED <<shares, clock, albumVars, appVars, clientVars>>

Refused_Open(shareInfo, userId) == FALSE

\* DELETE /:token: the ownership check
Refused(shareInfo, userId) ==
    /\ shareInfo.createdBy # Undefined
    /\ userId # Undefined
    /\ shareInfo.createdBy # userId

\* DELETE /:token
ShareDeleteStart(id, token, user) ==
    /\ FreeSlot(id)
    /\ calls' = [calls EXCEPT ![id] =
                   [IdleCall EXCEPT !.kind = "delete", !.token = token,
                                    !.user = user, !.pc = "get"]]
    /\ UNCHANGED <<shares, clock, albumVars, appVars, clientVars>>

\* DELETE /:token: getShareInfo(token), then the ownership check
ShareDeleteInfo(id) ==
    /\ calls[id].kind = "delete" /\ calls[id].pc = "get"
    /\ \E fault \in FaultChoices :
        LET c == calls[id]
            shareInfo == getShareInfo(shares, c.token, clock, fault)
        IN calls' = [calls EXCEPT ![id] =
                       IF shareInfo = Threw THEN Answer(c, 500, StoreError)
                       ELSE IF shareInfo = Null
                       THEN Answer(c, 404, "")
                       ELSE IF Refused(shareInfo.item, c.user)
                       THEN Answer(c, 403, "")
                       ELSE [c EXCEPT !.user = Undefined, !.pc = "del"]]
    /\ UNCHANGED <<shares, clock, albumVars, appVars, clientVars>>

\* DELETE /:token: deleteShareToken(token)
ShareDelete(id) ==
    /\ calls[id].kind = "delete" /\ calls[id].pc = "del"
    /\ \E fault \in FaultChoices :
        LET c == calls[id] IN
        IF fault
        THEN /\ calls' = [calls EXCEPT ![id] = Answer(c, 500, StoreError)]
             /\ UNCHANGED shares
        ELSE /\ shares' = DeleteItem(shares, c.token)
             /\ calls' = [calls EXCEPT ![id] =
                            Answer(c, 200, "")]
    /\ UNCHANGED <<clock, albumVars, appVars, clientVars>>

-----------------------------------------------------------------------------
(* Server clock *)

\* time passes while a request is being handled
ClockTick ==
    /\ \E id \in CallIds : InFlight(calls[id])
    /\ clock % DAY_MS <= MaxLatency
    /\ clock' = clock + 1
    /\ UNCHANGED <<shares, calls, albumVars, appVars, clientVars>>

\* the instants around the expiry of the records the table holds
ExpiryInstants(tbl) ==
    {tbl[k].expiresAt + d : k \in DOMAIN tbl, d \in {-1, 0, 1}}

\* time passes between requests
Elapse(t) ==
    /\ \A id \in CallIds : ~InFlight(calls[id])
    /\ t > clock
    /\ t <= MaxElapsedDays * DAY_MS
    /\ clock' = t
    /\ UNCHANGED <<shares, calls, albumVars, appVars, clientVars>>

-----------------------------------------------------------------------------
(* server.ts: the Express application (rate limiter, authenticate, mounts) *)

MAX_REQUESTS == 100

\* the requests the application is sent: method and path
Routes ==
    {"GET /health", "GET /api/health", "POST /api/presign", "POST /api/s3/delete",
     "POST /api/share/create", "GET /api/share/:token", "DELETE /api/share/:token"}

Clients == {"198.51.100.7"}

\* the Authorization header: absent, a bearer token the pool does not accept,
\* a bearer token the pool accepts
Bearers == {"none", "Bearer expired", "Bearer valid"}

Envs == [NODE_ENV : {"production", "development"}, COGNITO : BOOLEAN]

NoRequest ==
    [pc |-> "idle", route |-> "", client |-> "", bearer |-> "none",
     status |-> 0, user |-> Undefined, ran |-> "none", details |-> ""]

NoHits == [totalHits |-> 0, served |-> 0]

\* app.use('/api', apiLimiter)
UnderApi(route) ==
    route \in {"GET /api/health", "POST /api/presign", "POST /api/s3/delete",
               "POST /api/share/create", "GET /api/share/:token",
               "DELETE /api/share/:token"}

\* skip: (req) => req.path === '/health', the path being relative to the mount
skip(route) == route = "GET /api/health"

\* the routes mounted behind authenticate: /api/presign and the two routers
\* of /api/s3
Protected(route) == route \in {"POST /api/presign", "POST /api/s3/delete"}

\* the share router's routes mounted behind authenticate
ShareProtected(route) ==
    route \in {"POST /api/share/create", "DELETE /api/share/:token"}

\* the routes a handler is mounted for
Mounted(route) == route # "GET /api/health"

OverLimit_OneMore(totalHits) == totalHits > MAX_REQUESTS + 1

\* express-rate-limit: a request is refused once the hits exceed max
OverLimit(totalHits) == totalHits > MAX_REQUESTS

\* getVerifier: null without a usable configuration or when creation throws,
\* else the cached verifier
getVerifier(created) == env.COGNITO /\ created

verify_Trusting(bearer) == TRUE

\* jwtVerifier.verify(token): returns the payload or throws
verify(bearer) == bearer = "Bearer valid"

\* a request arrives (one is in the middleware chain at a time)
HttpArrive(route, client, bearer) ==
    /\ http.pc \in {"idle", "done"}
    /\ limiter[client].totalHits < MAX_REQUESTS + MaxOver
    /\ http' = [NoRequest EXCEPT !.pc = "limiter", !.route = route,
                                 !.client = client, !.bearer = bearer]
    /\ UNCHANGED <<env, limiter, verifier, albumVars, shareVars, clientVars>>

\* apiLimiter
HttpLimit ==
    /\ http.pc = "limiter"
    /\ IF UnderApi(http.route) /\ ~skip(http.route)
       THEN LET hits == limiter[http.client].totalHits + 1
            IN IF OverLimit(hits)
               THEN /\ limiter' = [limiter EXCEPT ![http.client].totalHits = hits]
                    /\ http' = [http EXCEPT !.pc = "done", !.status = 429]
               ELSE /\ limiter' = [limiter EXCEPT
                                     ![http.client].totalHits = hits,
                                     ![http.client].served = @ + 1]
                    /\ http' = [http EXCEPT !.pc = "route"]
       ELSE /\ http' = [http EXCEPT !.pc = "route"]
            /\ UNCHANGED limiter
    /\ UNCHANGED <<env, verifier, albumVars, shareVars, clientVars>>

\* the window of the limiter's store ends
WindowReset ==
    /\ \E c \in Clients : limiter[c] # NoHits
    /\ limiter' = [c \in Clients |-> NoHits]
    /\ UNCHANGED <<env, http, verifier, albumVars, shareVars, clientVars>>

\* authenticate
HttpAuthenticate ==
    /\ http.pc = "route"
    /\ Protected(http.route) \/ ShareProtected(http.route)
    /\ IF http.bearer = "none"
       THEN /\ http' = [http EXCEPT !.pc = "done", !.status = 401]
            /\ UNCHANGED verifier
       ELSE \E created \in (IF verifier THEN {TRUE} ELSE FaultChoices) :
              IF ~getVerifier(created)
              THEN /\ http' = [http EXCEPT
                        !.pc = "done",
                        !.status = IF env.NODE_ENV # "production" THEN 503 ELSE 500,
                        !.details = IF env.NODE_ENV # "production"
                                    THEN "COGNITO configuration" ELSE ""]
                   /\ UNCHANGED verifier
              ELSE /\ verifier' = TRUE
                   /\ http' = IF verify(http.bearer)
                              THEN [http EXCEPT !.pc = "handler", !.user = "u1"]
                              ELSE [http EXCEPT !.pc = "done", !.status = 401]
    /\ UNCHANGED <<env, limiter, albumVars, shareVars, clientVars>>

\* the route's handler runs (or no route matches)
HttpHandle ==
    /\ \/ http.pc = "handler"
       \/ http.pc = "route" /\ ~Protected(http.route) /\ ~ShareProtected(http.route)
    /\ http' = IF Mounted(http.route)
               THEN [http EXCEPT !.pc = "done", !.status = 200, !.ran = http.route]
               ELSE [http EXCEPT !.pc = "done", !.status = 404]
    /\ UNCHANGED <<env, limiter, verifier, albumVars, shareVars, clientVars>>

\* the process starts again with an environment
Restart(e) ==
    /\ http.pc = "done"
    /\ env' = e
    /\ http' = NoRequest
    /\ limiter' = [c \in Clients |-> NoHits]
    /\ verifier' = FALSE
    /\ UNCHANGED <<albumVars, shareVars, clientVars>>

-----------------------------------------------------------------------------

Init ==
    /\ store = <<>>
    /\ events = {}
    /\ recs = <<>>
    /\ gen = <<>>
    /\ invs = <<>>
    /\ now = 1
    /\ req = Idle
    /\ index = <<>>
    /\ shares = <<>>
    /\ calls = [id \in CallIds |-> IdleCall]
    /\ clock = 1
    /\ env = [NODE_ENV |-> "production", COGNITO |-> TRUE]
    /\ http = NoRequest
    /\ limiter = [c \in Clients |-> NoHits]
    /\ verifier = FALSE
    /\ job = NoJob
    /\ hook = Unmounted

\* uploads, event deliveries and the derivative generator
Next ==
    \/ \E b \in Batches : Invoke(b)
    \/ \E c \in Calls : GenProbe(c)
    \/ \E c \in Calls : GenDownload(c)
    \/ \E c \in Calls : GenUpload(c)
    \/ \E i \in DOMAIN invs : HandlerReturn(i)
    \/ \E f \in Folders, file \in Files : UploadStart(f, file)
    \/ UploadPut

Spec == Init /\ [][Next]_vars

\* GET /list: the objects the album shows (and lets the user delete)
Listed == {k \in DOMAIN store : ~endsWith(k, "/") /\ ~startsWith(k, THUMBNAIL_PREFIX)}

\* uploads, single event deliveries, the generator and the delete route
NextDelete ==
    \/ \E k \in events : Invoke(<<EncodeKey(k)>>)
    \/ \E c \in Calls : GenProbe(c)
    \/ \E c \in Calls : GenDownload(c)
    \/ \E c \in Calls : GenUpload(c)
    \/ \E i \in DOMAIN invs : HandlerReturn(i)
    \/ \E f \in Folders, file \in Files : UploadStart(f, file)
    \/ UploadPut
    \/ \E k \in Listed : DeleteStart(k)
    \/ DeleteProbeThumb
    \/ DeleteThumb

SpecDelete == Init /\ [][NextDelete]_vars

\* a gallery that mounts the hook, changes folder, pages and refreshes
NextHook ==
    \/ Mount
    \/ \E f \in HookFolders : SelectFolder(f)
    \/ loadMore
    \/ refreshImages
    \/ \E p \in hook.pending : ListSettles(p)

SpecHook == Init /\ [][NextHook]_vars

\* single writes of index records
NextRecord ==
    \/ \E image \in RecordImages : createImageMetadata(s3ImageToMetadata(image, <<>>))
    \/ \E key \in RecordKeys, updates \in Updates : updateImageMetadata(key, updates)

SpecRecord == Init /\ [][NextRecord]_vars

\* one batch write of the migration script, of any size up to MaxItems
NextIndex ==
    \/ \E n \in 0..MaxItems : BatchStart(n)
    \/ BatchSend
    \/ BatchSettle

SpecIndex == Init /\ [][NextIndex]_vars

\* the REST routes and the migration script
NextFacade ==
    \/ Tick
    \/ \E f \in Folders, file \in Files : UploadStart(f, file)
    \/ UploadPut
    \/ \E k \in RequestKeys : DeleteStart(k)
    \/ DeleteProbeThumb
    \/ DeleteThumb
    \/ \E k1 \in RequestKeys, k2 \in RequestKeys : MoveStart(k1, k2)
    \/ MoveDeleteOld
    \/ \E k \in RequestKeys, t \in TagInputs : TagsStart(k, t)
    \/ TagsGet
    \/ TagsCopy
    \/ Migrate

SpecFacade == Init /\ [][NextFacade]_vars


\* uploads and concurrent requests to the share router
NextShare ==
    \/ \E f \in Folders, file \in ShareFiles : UploadStart(f, file)
    \/ UploadPut
    \/ \E id \in CallIds, k \in ShareImageKeys, u \in Authenticated :
          ShareCreateStart(id, k, NoDays, u)
    \/ \E id \in CallIds, t \in Tokens : ShareCreateHead(id, t)
    \/ \E id \in CallIds, t \in Tokens : ShareCreateProbe(id, t)
    \/ \E id \in CallIds : ShareCreatePut(id)
    \/ \E id \in CallIds : ShareCreateResolve(id)
    \/ \E id \in CallIds, t \in Tokens : ShareGetStart(id, t)
    \/ \E id \in CallIds : ShareGetInfo(id)
    \/ \E id \in CallIds : ShareGetHead(id)
    \/ \E id \in CallIds : ShareGetLookup(id)
    \/ \E id \in CallIds : ShareGetHead2(id)
    \/ \E id \in CallIds, t \in Tokens, u \in Authenticated : ShareDeleteStart(id, t, u)
    \/ \E id \in CallIds : ShareDeleteInfo(id)
    \/ \E id \in CallIds : ShareDelete(id)

SpecShare == Init /\ [][NextShare]_vars

\* one request to the share router at a time, while time passes
NextExpiry ==
    \/ \E f \in Folders, file \in ShareFiles : UploadStart(f, file)
    \/ UploadPut
    \/ \E k \in ShareImageKeys, d \in DayInputs, u \in Authenticated :
          ShareCreateStart(1, k, d, u)
    \/ ShareCreateHead(1, "tokA")
    \/ ShareCreateProbe(1, "tokA")
    \/ ShareCreatePut(1)
    \/ ShareCreateResolve(1)
    \/ ShareGetStart(1, "tokA")
    \/ ShareGetInfo(1)
    \/ ShareGetHead(1)
    \/ ShareGetLookup(1)
    \/ ShareGetHead2(1)
    \/ \E u \in Authenticated : ShareDeleteStart(1, "tokA", u)
    \/ ShareDeleteInfo(1)
    \/ ShareDelete(1)
    \/ ClockTick
    \/ \E t \in ExpiryInstants(shares) : Elapse(t)

SpecExpiry == Init /\ [][NextExpiry]_vars

\* the REST routes that take a key, a tag list or a folder path
NextRoutes ==
    \/ \E f \in Folders, file \in Files : UploadStart(f, file)
    \/ UploadPut
    \/ \E k \in RequestKeys : DeleteStart(k)
    \/ DeleteProbeThumb
    \/ DeleteThumb
    \/ \E k1 \in RequestKeys, k2 \in RequestKeys : MoveStart(k1, k2)
    \/ MoveDeleteOld
    \/ \E k \in RequestKeys, t \in TagInputs : TagsStart(k, t)
    \/ TagsGet
    \/ TagsCopy
    \/ \E path \in PathInputs : FolderDelete(path)

SpecRoutes == Init /\ [][NextRoutes]_vars

\* PUT /image/:key/tags on an image of the bucket
NextTags ==
    \/ \E meta \in MetaInputs : BucketPut(TaggedKey, meta)
    \/ \E t \in TagLists : TagsStart(TaggedKey, t)
    \/ TagsGet
    \/ TagsCopy

SpecTags == Init /\ [][NextTags]_vars

\* POST /presign for every key of KeyInputs, as the first request the
\* server is sent (the handler keeps nothing from one request to the next)
NextValidate == req = Idle /\ \E key \in KeyInputs : Presign(key)

SpecValidate == Init /\ [][NextValidate]_vars

\* requests through the middleware chain of the application
NextGateway ==
    \/ \E route \in Routes, client \in Clients, bearer \in Bearers :
          HttpArrive(route, client, bearer)
    \/ HttpLimit
    \/ HttpAuthenticate
    \/ HttpHandle
    \/ WindowReset
    \/ \E e \in Envs : Restart(e)

SpecGateway == Init /\ [][NextGateway]_vars

-----------------------------------------------------------------------------
(* Properties of the derivative generator and the event handler (Spec) *)

SameDerivative(c1, c2) == c1[2] = c2[2] /\ gen[c1].key = gen[c2].key

\* C1: a generator call that finds its derivative already in the bucket
\* downloads nothing and writes nothing, so the existing object keeps its
\* bytes, and when the call returns it returns the "already exists" result.
C1_ExistingDerivativeUntouched ==
    \A c \in Calls : gen[c].existedAtProbe =>
        /\ gen[c].pc \in {"done", "threw"}
        /\ gen[c].downloads = 0
        /\ gen[c].writes = 0
        /\ gen[c].pc = "done" => gen[c].result = AlreadyExists(c[2])

C1_Witness ==
    \E c \in Calls :
        /\ gen[c].existedAtProbe
        /\ gen[c].pc = "done"
        /\ gen[c].result = AlreadyExists(c[2])
        /\ DerivativeKey(c[2], gen[c].key) \in DOMAIN store

\* C2 as stated: over all deliveries for a key, duplicates processed
\* concurrently included, each derivative is written at most once and an
\* existing derivative is never overwritten.
C2_WrittenAtMostOnce ==
    /\ \A c1, c2 \in Calls :
          (gen[c1].writes > 0 /\ gen[c2].writes > 0 /\ SameDerivative(c1, c2)) => c1 = c2
    /\ \A c \in Calls : ~gen[c].overwrote

\* C2 amended: a call writes its derivative at most once and only if its own
\* existence probe found the derivative absent; an overwrite is the work of a
\* call that probed before the derivative was there.
C2_WritesOnlyAfterAbsentProbe ==
    \A c \in Calls :
        /\ gen[c].writes <= 1
        /\ gen[c].writes > 0 => (gen[c].probes = 1 /\ ~gen[c].existedAtProbe)
        /\ gen[c].overwrote => (gen[c].writes = 1 /\ ~gen[c].existedAtProbe)

C2_Witness ==
    \E c1, c2 \in Calls :
        /\ c1 # c2
        /\ SameDerivative(c1, c2)
        /\ gen[c1].writes = 1
        /\ gen[c2].writes = 1
        /\ gen[c2].overwrote
        /\ ~gen[c2].existedAtProbe

\* C3: the handler never throws or rejects, whatever happens to its records.
C3_HandlerNeverThrows ==
    \A i \in DOMAIN invs : invs[i].status \in {"running", "returned"}

C3_Witness ==
    \E i \in DOMAIN invs :
        /\ invs[i].status = "returned"
        /\ invs[i].sawError
        /\ \E r \in RecIdx(i) : RecRejected(r)

\* C4: when the handler returns, both generator calls of every record of the
\* batch have their outcome, also when another record of the batch failed.
C4_AllRecordsSettledAtReturn ==
    \A i \in DOMAIN invs :
        invs[i].status = "returned" => \A r \in RecIdx(i) : RecSettled(r)

\* C5: for a key under thumbnails/ or previews/ both generators return a skip
\* result and touch the bucket neither for reading nor for writing.
C5_GeneratedKeysSkipped ==
    \A c \in Calls :
        (gen[c].pc # "none" /\ isGeneratedImageFile(gen[c].key)) =>
            /\ gen[c].pc = "done"
            /\ gen[c].result \in SkipResults
            /\ gen[c].probes = 0
            /\ gen[c].downloads = 0
            /\ gen[c].writes = 0

\* C6: once both generator calls of a record have finished, the combined call
\* has returned both results, whichever of the two failed and at whichever step.
C6_CombinedCallReturns ==
    \A r \in DOMAIN recs :
        (recs[r].decoded /\ RecSettled(r)) => RecResolved(r)

\* C7: a generator call never throws or rejects; every failure is a returned
\* result.
C7_GeneratorNeverThrows ==
    \A c \in Calls : gen[c].pc # "threw"

-----------------------------------------------------------------------------
(* Properties of the REST routes (SpecDelete, SpecFacade) *)

\* the step in which a request is answered with 200
Answered200(kind) ==
    /\ req.pc # "done"
    /\ req'.pc = "done"
    /\ req'.kind = kind
    /\ req'.status = 200

\* C8: when the delete of K is answered with success, K, thumbnails/K and
\* previews/K are all gone from the bucket.
C8_DeleteCascades ==
    [][Answered200("delete") =>
          /\ req'.key \notin DOMAIN store'
          /\ getThumbnailKey(req'.key) \notin DOMAIN store'
          /\ getPreviewKey(req'.key) \notin DOMAIN store']_vars

\* C9: the index follows every mutation: a record exists after an upload,
\* carries the stored tags after a tag update, and is gone after a delete.
C9_IndexInStep ==
    [][/\ Answered200("upload") => req'.key \in DOMAIN index'
       /\ Answered200("tags") =>
             /\ req'.key \in DOMAIN index'
             /\ index'[req'.key].tags = getObjectTags(store', req'.key)
       /\ Answered200("delete") => req'.key \notin DOMAIN index']_vars

\* C10: the bytes stored under a key never change while the key exists.
C10_ContentNeverChanges ==
    [][\A k \in DOMAIN store \cap DOMAIN store' :
          store'[k].bytes = store[k].bytes]_vars

-----------------------------------------------------------------------------
(* Properties of the share-token service and the share router *)

\* C11: a successful create never overwrites or replaces an existing share
\* record, whatever the interleaving of concurrent creates and whatever the
\* outcome of the existence probe: a record the table holds is the same
\* record after every step for as long as it is not deleted.
C11_CreateNeverOverwrites ==
    [][\A t \in DOMAIN shares : t \in DOMAIN shares' => shares'[t] = shares[t]]_vars

\* C12: share creation probes at most 10 candidate tokens, and when each of
\* the 10 candidates is found by its probe to have a record already, create
\* fails with an error and has written no share record.
C12_AttemptCeiling ==
    \A id \in CallIds :
        calls[id].kind = "create" =>
            /\ calls[id].probes <= maxAttempts
            /\ calls[id].found = maxAttempts =>
                  /\ calls[id].pc = "done"
                  /\ calls[id].status = 500
                  /\ calls[id].details = NoUniqueToken
                  /\ calls[id].puts = 0

\* a create gave up after ten candidates that were all taken
C12_Witness ==
    \E id \in CallIds :
        /\ calls[id].kind = "create"
        /\ calls[id].probes = maxAttempts
        /\ calls[id].found = maxAttempts
        /\ calls[id].status = 500

\* the step in which GET /:token gets the answer of getShareInfo(token)
Resolves(id) ==
    /\ calls[id].kind = "resolve" /\ calls[id].pc = "get"
    /\ calls'[id] # calls[id]
    /\ calls'[id].status # 500

\* getShareInfo returned the record the table holds for the token
ReturnsRecord(id) ==
    /\ calls'[id].pc = "head"
    /\ calls[id].token \in DOMAIN shares
    /\ calls'[id].imageKey = shares[calls[id].token].imageKey

\* getShareInfo returned null: the caller answers "not found or expired"
ReturnsNull(id) == calls'[id] = Answer(calls[id], 404, "")

\* C13 as stated: resolve(token) returns the share record if and only if a
\* record for the token exists and its expiresAt is later than the current
\* time; otherwise it returns null, for an expired record exactly as for an
\* unknown token.
C13_ResolveIffLater ==
    [][\A id \in CallIds : Resolves(id) =>
          LET live == /\ calls[id].token \in DOMAIN shares
                      /\ shares[calls[id].token].expiresAt > clock
          IN /\ ReturnsRecord(id) <=> live
             /\ ~live => ReturnsNull(id)]_vars

\* C13 as amended: resolve(token) returns the share record if and only if a
\* record for the token exists and its expiresAt is not earlier than the
\* current time; otherwise it returns null, for an expired record exactly as
\* for an unknown token.
C13_ResolveIffNotEarlier ==
    [][\A id \in CallIds : Resolves(id) =>
          LET live == /\ calls[id].token \in DOMAIN shares
                      /\ shares[calls[id].token].expiresAt >= clock
          IN /\ ReturnsRecord(id) <=> live
             /\ ~live => ReturnsNull(id)]_vars

\* a record was resolved in the very millisecond of its expiresAt
C13_Witness ==
    \E id \in CallIds :
        /\ calls[id].kind = "resolve" /\ calls[id].pc = "head"
        /\ calls[id].token \in DOMAIN shares
        /\ shares[calls[id].token].expiresAt = clock

\* clamp(n, lo, hi)
Clamp(n, lo, hi) == IF n < lo THEN lo ELSE IF n > hi THEN hi ELSE n

\* the step in which createShareToken inserts the record and returns the token
Creates(id) ==
    /\ calls[id].kind = "create" /\ calls[id].pc = "put"
    /\ calls'[id].pc = "resolve"

\* C14: for any imageKey and any requested expiresInDays, share creation
\* followed immediately by resolution of the returned token returns a record
\* with that same imageKey and an expiresAt that is later than now and no
\* later than the creation time plus clamp(expiresInDays, 1, MAX_DAYS) days.
C14_CreateThenResolve ==
    [][\A id \in CallIds : Creates(id) =>
          LET c == calls[id]
              requested == IF c.days.given THEN c.days.n
                           ELSE DEFAULT_SHARE_EXPIRY_DAYS
              resolved == getShareInfo(shares', calls'[id].token, clock', FALSE)
          IN /\ resolved.outcome = "record"
             /\ resolved.item.imageKey = c.imageKey
             /\ resolved.item.expiresAt > clock'
             /\ resolved.item.expiresAt <=
                   c.nowAt + Clamp(requested, 1, MAX_SHARE_EXPIRY_DAYS) * 86400000]_vars

\* a share asked for zero days, or for more than MAX_DAYS days, has been
\* created with the clamped lifetime
C14_Witness ==
    \E id \in CallIds :
        /\ calls[id].kind = "create" /\ calls[id].pc = "resolve"
        /\ calls[id].token \in DOMAIN shares
        /\ LET r == shares[calls[id].token]
           IN r.expiresAt - r.createdAt \in {86400000, MAX_SHARE_EXPIRY_DAYS * 86400000}

\* the step in which DELETE /:token looks the share up and checks the owner
ChecksOwner(id) ==
    /\ calls[id].kind = "delete" /\ calls[id].pc = "get"
    /\ calls'[id] # calls[id]
    /\ calls[id].token \in DOMAIN shares

-----------------------------------------------------------------------------
(* Properties of utils/validation.ts (SpecValidate) *)

\* the ASCII control characters: U+0000..U+001F and U+007F
IsControl(c) == c \in 0..31 \/ c = 127

\* the keys validateKey has to reject: empty or not a string, '..' or '//'
\* inside, a leading '/', a null byte, a control character other than tab
\* (9), LF (10) and CR (13), more than 1024 characters
MustReject(key) ==
    LET s == Text(key) IN
    \/ s = <<>>
    \/ \E i \in DOMAIN key : key[i] = "<number>"
    \/ \E i \in 1..(Len(s) - 1) : s[i] = 46 /\ s[i + 1] = 46
    \/ \E i \in 1..(Len(s) - 1) : s[i] = 47 /\ s[i + 1] = 47
    \/ Len(s) > 0 /\ s[1] = 47
    \/ \E i \in DOMAIN s : s[i] = 0
    \/ \E i \in DOMAIN s : IsControl(s[i]) /\ s[i] \notin {9, 10, 13}
    \/ Len(s) > 1024

\* C20: validateKey rejects every key that is empty or not a string, contains
\* '..' or '//', starts with '/', contains a null byte or a control character
\* other than tab, CR or LF, or is longer than 1024 characters, and accepts
\* every other key (seen at POST /presign, which answers 400 exactly when
\* validateS3Key throws).
C20_ValidateKey ==
    req.kind = "presign" => (req.status = 400 <=> MustReject(req.key))

\* a key of exactly 1024 characters with a tab in it was accepted
C20_Witness ==
    /\ req.kind = "presign" /\ req.status = 200
    /\ Len(Text(req.key)) = 1024
    /\ \E i \in DOMAIN req.key : req.key[i] = "\\t"

-----------------------------------------------------------------------------
(* Properties of the Express application (SpecGateway, SpecRoutes) *)

\* the routes that are served without authentication: the health check and
\* the resolution of a share link
PublicRoutes == {"GET /health", "GET /api/share/:token"}

\* C16: no route handler other than the health check and the public share
\* resolution runs for a request without a bearer token that verified
\* successfully (share creation and share deletion included), and a handler
\* that ran behind the verification was handed the verified identity.
C16_HandlersBehindVerification ==
    (http.ran # "none" /\ http.ran \notin PublicRoutes) =>
        /\ http.bearer = "Bearer valid"
        /\ http.user # Undefined
        /\ verifier

\* a share was created or deleted through the chain, and a request with a
\* token that does not verify was turned away with 401
C16_Witness ==
    \/ http.ran \in {"POST /api/share/create", "DELETE /api/share/:token"}
    \/ /\ http.pc = "done" /\ http.bearer = "Bearer expired"
       /\ http.status = 401 /\ http.route = "POST /api/s3/delete"

\* the step of the rate limiter for the request in the chain
LimiterStep == http.pc = "limiter" /\ http'.pc # "limiter"

\* C17: within one window a client is served at most MAX_REQUESTS requests
\* on /api routes, every further request of the window is answered 429 by
\* the limiter itself (no authentication, no handler), and a health-check
\* request is never limited.
C17_WindowQuota ==
    /\ [](\A c \in Clients : limiter[c].served <= MAX_REQUESTS)
    /\ [](http.status = 429 =>
            /\ http.route # "GET /health"
            /\ http.ran = "none" /\ http.user = Undefined /\ http.pc = "done")
    /\ [][LimiterStep /\ UnderApi(http.route) /\ ~skip(http.route)
            /\ limiter[http.client].served = MAX_REQUESTS
          => http'.pc = "done" /\ http'.status = 429]_vars

\* the quota of a window was used up and the next request was refused
C17_Witness ==
    \E c \in Clients :
        /\ limiter[c].served = MAX_REQUESTS
        /\ http.client = c /\ http.status = 429

\* the request is answered 4xx and neither the bucket nor the index was
\* called (the step decides on the input alone: no outcome of a store call
\* has a part in it)
RejectedFirst ==
    /\ req'.pc = "done" /\ req'.status \in 400..499
    /\ store' = store /\ index' = index /\ events' = events

\* a tag list validateTags throws for: not an array, or an item that is not a
\* string or is longer than 50 characters
BadTags(tags) ==
    \/ ~tags.isArray
    \/ \E i \in DOMAIN tags.items :
          tags.items[i] = "<number>" \/ Len(CharCodes(tags.items[i])) > 50

\* a path validatePrefix throws for: not a string, or with '..' or '//' left
\* between its surrounding slashes; DELETE /folder also refuses no path
BadPath(path) ==
    path \in { <<"..", "/", "a">>, <<"a", "/", "/", "b">>, <<>>, <<"<number>">> }

\* a route takes a request: the step from an answered request to the next
Takes(kinds) == req.pc = "done" /\ req' # req /\ req'.kind \in kinds

\* C18: for every facade route that takes a key, a prefix or a tag list, a
\* request whose input fails validation is answered 4xx in the step that
\* takes it, before any call of the object store or of the index.
C18_ValidationFirst ==
    [][/\ Takes({"upload", "delete", "move", "tags"}) /\ MustReject(req'.key)
            => RejectedFirst
       /\ Takes({"move"}) /\ MustReject(req'.key2) => RejectedFirst
       /\ Takes({"tags"}) =>
            \A t \in TagInputs :
                BadTags(t) /\ TagsStart(req'.key, t) => RejectedFirst
       /\ Takes({"rmdir"}) /\ BadPath(req'.key) => RejectedFirst]_vars

\* DELETE /folder with a traversal path was refused while the bucket held
\* objects
C18_Witness ==
    /\ req.kind = "rmdir" /\ req.key = <<"..", "/", "a">>
    /\ req.status = 400 /\ DOMAIN store # {}

\* C19: in production mode no error response of the facade carries a details
\* field or an internal error message: neither an answer of the middleware
\* chain nor an answer of a share route.
C19_NoDetailsInProduction ==
    env.NODE_ENV = "production" =>
        /\ http.details = ""
        /\ \A id \in CallIds : calls[id].details = ""

-----------------------------------------------------------------------------
(* Properties of the tag routes (SpecTags) *)

\* a tag as it has to be stored: without surrounding blanks, in lower case
Clean(tag) ==
    CASE tag \in {"a", "A", " a", "a ", " a ", " A "} -> "a"
      [] tag \in {"b", "B"} -> "b"
      [] tag \in {" ", ""} -> ""
      [] OTHER -> tag

Range(seq) == {seq[i] : i \in DOMAIN seq}

\* setTags has written the tags of the request
TagsStored == req.kind = "tags" /\ req.pc = "copy" /\ req'.status = 200

\* C21: the tag list setTags stores holds only trimmed, lower-cased,
\* non-empty tags without duplicates, normalizing it again changes nothing,
\* and as a set it is the set of the trimmed and lower-cased non-empty tags
\* of the input, whatever their order and multiplicity.
C21_NormalizedTags ==
    [][TagsStored =>
         LET stored == JsonParse(store'[req.key].meta["tags"]) IN
         /\ \A i \in DOMAIN stored : stored[i] # "" /\ Clean(stored[i]) = stored[i]
         /\ \A i, j \in DOMAIN stored : stored[i] = stored[j] => i = j
         /\ normalizeTags(stored) = stored
         /\ Range(stored) = {Clean(t) : t \in Range(req.body)} \ {""}]_vars

\* tags that differ only in case and blanks were sent twice, after another
\* tag, and the list is about to be stored
C21_Witness ==
    /\ req.kind = "tags" /\ req.pc = "copy"
    /\ req.body = <<"B", " A ", "a">>
    /\ req.tags = <<"b", "a">>

\* C23: setTags on key K changes only the tags entry of K's metadata: every
\* other metadata key and value, the content type and the bytes of K are the
\* same before and after, and no other object is touched.
C23_OnlyTagsEntryChanges ==
    [][TagsStored =>
         LET before == store[req.key]
             after  == store'[req.key]
         IN /\ after.bytes = before.bytes
            /\ after.ctype = before.ctype
            /\ DOMAIN after.meta = DOMAIN before.meta \cup {"tags"}
            /\ \A m \in DOMAIN before.meta \ {"tags"} : after.meta[m] = before.meta[m]
            /\ \A k \in DOMAIN store \ {req.key} :
                  k \in DOMAIN store' /\ store'[k] = store[k]]_vars

\* the tags of an image that carries an author entry were set
C23_Witness ==
    /\ req.kind = "tags" /\ req.status = 200
    /\ req.key \in DOMAIN store
    /\ {"author", "tags"} \subseteq DOMAIN store[req.key].meta

\* C26: after setTags(K, T) succeeds, getTags(K) returns exactly the
\* normalized form of T, whatever metadata entries K carried beforehand.
C26_GetReturnsStored ==
    [][TagsStored => getObjectTags(store', req.key) = req.tags]_vars

-----------------------------------------------------------------------------
(* Properties of the move and folder routes (SpecRoutes) *)

\* a step of POST /move for an image the bucket holds: the request is taken
\* (validation and CopyObject) or the old key is deleted
MoveStep ==
    \/ Takes({"move"}) /\ req'.key \in DOMAIN store
    \/ req.kind = "move" /\ req.pc = "delOld" /\ req' # req /\ req.key \in DOMAIN store

\* C28: a move from oldKey to newKey never loses the image: after every
\* step of the move, whether it goes on, finishes or fails (a failed copy and
\* oldKey = newKey included), the image's bytes are under oldKey or newKey.
C28_MoveKeepsImage ==
    [][MoveStep =>
         LET image == store[req'.key].bytes IN
         \/ req'.key \in DOMAIN store' /\ store'[req'.key].bytes = image
         \/ req'.key2 \in DOMAIN store' /\ store'[req'.key2].bytes = image]_vars

\* a move to another key finished: the old key is gone and the new key is
\* there
C28_Witness ==
    /\ req.kind = "move" /\ req.status = 200 /\ req.key # req.key2
    /\ req.key \notin DOMAIN store /\ req.key2 \in DOMAIN store

\* the objects a step removes from the bucket
Removed == DOMAIN store \ DOMAIN store'

\* C29: delete-folder never deletes an object outside the folder named by
\* the request, and a path that names no folder (it normalizes to the empty
\* prefix, as "/" does) deletes nothing.
C29_DeleteStaysInFolder ==
    [][Takes({"rmdir"}) =>
         \A k \in Removed :
             /\ req'.key \notin {<<>>, <<"/">>}
             /\ startsWith(k, req'.key \o <<"/">>)]_vars

-----------------------------------------------------------------------------
(* Properties of a delete that races the generator (SpecDelete) *)

Generating(call) == call.pc \in {"probe", "download", "upload"}

\* the delete of req.key has been answered with success while generator call
\* c, which downloaded the original before it was deleted, has yet to upload
Racing(c) ==
    /\ req.kind = "delete" /\ req.pc = "done" /\ req.status = 200
    /\ req.key \notin DOMAIN store
    /\ gen[c].key = req.key
    /\ gen[c].pc = "upload"

\* C25: when a delete of K ran while the generation for K was in flight, then
\* once both have finished neither thumbnails/K nor previews/K remains in the
\* bucket.
C25_NoDerivativeAfterRace ==
    [][\A c \in Calls :
          (/\ Racing(c)
           /\ req' = req
           /\ \A d \in Calls : gen'[d].key = req.key => ~Generating(gen'[d]))
          => /\ getThumbnailKey(req.key) \notin DOMAIN store'
             /\ getPreviewKey(req.key) \notin DOMAIN store']_vars

-----------------------------------------------------------------------------
(* Properties of the batch write (SpecIndex) *)

Ceil(n, d) == (n + d - 1) \div d

RECURSIVE Flatten(_)
Flatten(seqs) == IF seqs = <<>> THEN <<>> ELSE Head(seqs) \o Flatten(Tail(seqs))

Sizes(seqs) == [c \in DOMAIN seqs |-> Len(seqs[c])]

\* C24: a batch write of n records issues its store calls one at a time,
\* each only after the one before has completed and each with at most 25
\* records; when it returns it has issued ceil(n/25) calls that together
\* carry the input records once each, in input order: 25, 25 and 3 for 53.
C24_ChunkedSequentialCalls ==
    /\ Len(job.sent) - job.completed = (IF job.pc = "await" THEN 1 ELSE 0)
    /\ \A c \in DOMAIN job.sent : Len(job.sent[c]) <= BATCH_WRITE_SIZE
    /\ job.pc = "returned" =>
          /\ Len(job.sent) = Ceil(Len(job.items), BATCH_WRITE_SIZE)
          /\ Flatten(job.sent) = KeysOf(job.items)
          /\ Len(job.items) = 53 => Sizes(job.sent) = <<25, 25, 3>>

C24_Witness ==
    /\ job.pc = "returned"
    /\ Len(job.items) = 53
    /\ Sizes(job.sent) = <<25, 25, 3>>

\* C27: when the batch write returns without error, every input record is
\* in the index, whatever the store reported as unprocessed.
C27_ReturnedMeansStored ==
    job.pc = "returned" =>
        \A j \in DOMAIN job.items : job.items[j].key \in DOMAIN index

-----------------------------------------------------------------------------
(* Properties of the index records (SpecRecord) *)

\* C22: every index record that has a tag list has a tagCount, the number of
\* distinct normalized tags of that list.
C22_TagCountIsSetSize ==
    \A k \in DOMAIN index :
        "tags" \in DOMAIN index[k] =>
            /\ "tagCount" \in DOMAIN index[k]
            /\ index[k].tagCount = Cardinality(Range(normalizeTags(index[k].tags)))

-----------------------------------------------------------------------------
(* Properties of the gallery hook (SpecHook) *)

InFolder(key, folderPath) ==
    /\ Len(key) = Len(folderPath) + 2
    /\ SubSeq(key, 1, Len(folderPath)) = folderPath

\* C30: the image list of the hook holds only images of the selected
\* folder: a page requested for a folder selected earlier is not applied or
\* appended once the folder has changed.
C30_OnlyCurrentFolder ==
    \A i \in DOMAIN hook.images : InFolder(hook.images[i], hook.folderPath)

====
